---- MODULE Spec2Model ----
(***************************************************************************)
(* Neuroscope extractors (spikeextractors/extractors/neuroscopeextractors) *)
(* as a state machine over one Neuroscope folder NAME/ and the extractor   *)
(* objects built from it.                                                  *)
(*                                                                         *)
(* Text files are sequences of integers (one per line).  The sidecar       *)
(* NAME.xml is a sequence of <<tag, value>> pairs, NoXml when absent.      *)
(* NAME.res / NAME.clu are res_files[0] / clu_files[0]; NAME.res.k /       *)
(* NAME.clu.k are res_files[k] / clu_files[k] for a shank digit k >= 1.    *)
(***************************************************************************)
EXTENDS Integers, Sequences, FiniteSets, TLC

(* ---------------------------- bounds ---------------------------------- *)
MaxSpikes == 2      \* lines of an input .res file
MaxTime == 2        \* spike times (sample indices) are 1..MaxTime
MaxClu == 3         \* cluster ids of an input .clu body are 0..MaxClu
MaxOps == 2         \* add_unit / shift_unit_ids calls on one extractor
MaxAddId == 2       \* add_unit is called with unit_id in 1..MaxAddId
MaxShanks == 2      \* shanks of a multi-shank sorting

VARIABLES xml, res_files, clu_files, dat, sorting, reread, multi, last, ops

vars == <<xml, res_files, clu_files, dat, sorting, reread, multi, last, ops>>

(* ---------------------------- values ---------------------------------- *)
NoXml == <<>>
NoFiles == [k \in {} |-> <<>>]
Times == 1..MaxTime
ClusterIds == 0..MaxClu
Headers == 0..(MaxClu + 1)

\* An extractor object that was never built (the constructor raised, or was
\* not called).  has_ids is FALSE while _unit_ids / _spiketrains are unset.
NoSorting ==
    [exists |-> FALSE, has_ids |-> FALSE, unit_ids |-> <<>>,
     spiketrains |-> <<>>, sampling_frequency |-> 0, keep_mua_units |-> TRUE]

\* A multi-shank extractor that was never built.
NoMulti == [exists |-> FALSE, sortings |-> <<>>]

SeqsUpTo(S, n) == UNION {[1..k -> S] : k \in 0..n}

Max(a, b) == IF a >= b THEN a ELSE b

(* ------------------------- numpy helpers ------------------------------ *)
\* np.unique(clu): the distinct values of the array
np_unique(a) == {a[i] : i \in DOMAIN a}

\* np.arange(n): 0, ..., n-1 (empty for n <= 0)
np_arange(n) == 0..(n - 1)

\* The truth value of  not unique_ids == np.arange(n_clu+1)  (line 195):
\* the set of outcomes the installed numpy can produce.
\*  - equal shapes: elementwise; an array of more than one element has no
\*    truth value ("ValueError", every numpy), one element is compared;
\*  - one side of length 1: broadcast to the other side's length;
\*  - shapes that do not broadcast: numpy < 1.25 answers the scalar False
\*    with a warning, later versions raise ("ValueError_new");
\*  - an empty result is falsy with a warning, an error in numpy >= 2.2.
NotEqualOutcomes(unique_ids, n_clu) ==
    LET a == Cardinality(unique_ids)
        b == Cardinality(np_arange(n_clu + 1))
        n == IF a = b THEN a ELSE IF a = 1 THEN b ELSE IF b = 1 THEN a ELSE -1
    IN  IF n = -1 THEN {"true", "ValueError_new"}
        ELSE IF n > 1 THEN {"ValueError"}
        ELSE IF n = 0 THEN {"true", "ValueError_new"}
        ELSE IF unique_ids = {0} THEN {"false"} ELSE {"true"}

\* (clu == s).nonzero(): the positions of s in clu, ascending
RECURSIVE nonzero(_, _, _)
nonzero(clu, s, from) ==
    IF from > Len(clu) THEN <<>>
    ELSE IF clu[from] = s THEN <<from>> \o nonzero(clu, s, from + 1)
    ELSE nonzero(clu, s, from + 1)

\* res[idx] for an index array idx: IndexError when an index is out of range
IndexOk(res, idx) == \A i \in DOMAIN idx : idx[i] <= Len(res)
TakeAt(res, idx) == [i \in DOMAIN idx |-> res[idx[i]]]

(* --------------------------- the sidecar ------------------------------ *)
\* soup.<tag>: the first element with that tag name, None when there is none
HasTag(x, tag) == \E i \in DOMAIN x : x[i][1] = tag
TagValue(x, tag) ==
    x[CHOOSE i \in DOMAIN x : x[i][1] = tag /\ \A j \in 1..(i - 1) : x[j][1] # tag][2]

(* --------------- NeuroscopeSortingExtractor.__init__ ------------------ *)
\* n_clu after the adjustment of lines 195-199, given the outcome of line 195
AdjustedNClu(n_clu, unique_ids, outcome) ==
    IF outcome = "true"
    THEN n_clu + (IF 0 \notin unique_ids THEN 1 ELSE 0)
               + (IF 1 \notin unique_ids THEN 1 ELSE 0)
    ELSE n_clu

\* (mutant) [x for x in range(n_clu)]: ids counted from 0
UnitIdRange_ZeroBased(n) == [x \in 1..Max(n, 0) |-> x - 1]

\* self._unit_ids = [x+1 for x in range(n_clu)]
UnitIdRange(n) == [x \in 1..Max(n, 0) |-> x]

\* (mutant) line 215 reading cluster s_id instead of s_id+1
SourceCluster_NoOffset(s_id, keep_mua_units) == s_id

\* cluster id read for output unit s_id: s_id (line 208) or s_id+1 (line 215)
SourceCluster(s_id, keep_mua_units) == IF keep_mua_units THEN s_id ELSE s_id + 1

\* number of clusters dropped before numbering: n_clu -= 1 or n_clu -= 2
Dropped(keep_mua_units) == IF keep_mua_units THEN 1 ELSE 2

\* Lines 186-215 on the loaded arrays res and clu (clu with its header).
\* error is "" when the block completes.
ReadPair(res, clufile, keep_mua_units, outcome) ==
    IF Len(res) = 0
    THEN [error |-> "", has_ids |-> FALSE, unit_ids |-> <<>>, spiketrains |-> <<>>]
    ELSE IF Len(clufile) = 0
    THEN [error |-> "IndexError", has_ids |-> FALSE, unit_ids |-> <<>>, spiketrains |-> <<>>]
    ELSE
      LET n_clu0 == clufile[1]
          clu == Tail(clufile)
          unique_ids == np_unique(clu)
          n_clu == AdjustedNClu(n_clu0, unique_ids, outcome)
          unit_ids == UnitIdRange(n_clu - Dropped(keep_mua_units))
          idx == [i \in DOMAIN unit_ids |->
                     nonzero(clu, SourceCluster(unit_ids[i], keep_mua_units), 1)]
      IN  IF outcome \in {"ValueError", "ValueError_new"}
          THEN [error |-> outcome, has_ids |-> FALSE, unit_ids |-> <<>>,
                spiketrains |-> <<>>]
          ELSE IF \E i \in DOMAIN idx : ~IndexOk(res, idx[i])
          THEN [error |-> "IndexError", has_ids |-> FALSE, unit_ids |-> <<>>,
                spiketrains |-> <<>>]
          ELSE [error |-> "", has_ids |-> TRUE, unit_ids |-> unit_ids,
                spiketrains |-> [i \in DOMAIN idx |-> TakeAt(res, idx[i])]]

\* The outcomes line 195 can have for this pair (it runs only for a
\* non-empty res and a clu file that has a header line).
OutcomesFor(res, clufile) ==
    IF Len(res) = 0 \/ Len(clufile) = 0 THEN {"skipped"}
    ELSE NotEqualOutcomes(np_unique(Tail(clufile)), clufile[1])

\* The whole constructor called with the resfile_path/clufile_path pair
\* (res, clufile) of a folder whose sidecar is x: the sidecar is parsed first
\* (lines 176-183), then the pair is read, then _kwargs is stored.
Construct(x, res, clufile, keep_mua_units, outcome) ==
    IF x = NoXml THEN [obj |-> NoSorting, error |-> "FileNotFoundError"]
    ELSE IF ~HasTag(x, "samplingrate") THEN [obj |-> NoSorting, error |-> "AttributeError"]
    ELSE LET r == ReadPair(res, clufile, keep_mua_units, outcome)
         IN  IF r.error # ""
             THEN [obj |-> NoSorting, error |-> r.error]
             ELSE [obj |-> [exists |-> TRUE, has_ids |-> r.has_ids,
                            unit_ids |-> r.unit_ids, spiketrains |-> r.spiketrains,
                            sampling_frequency |-> TagValue(x, "samplingrate"),
                            keep_mua_units |-> keep_mua_units],
                   error |-> ""]

\* get_unit_ids(): list(self._unit_ids), AttributeError while it is unset
get_unit_ids(obj) ==
    IF obj.has_ids THEN [error |-> "", value |-> obj.unit_ids]
    ELSE [error |-> "AttributeError", value |-> <<>>]

\* The record of the last call: its name, its arguments (keep_mua_units of a
\* constructor; dtype and the recording's own dtype of write_recording; the
\* per-shank extractors of a multi-shank save), the error it raised ("" when
\* it returned) and whether it wrote the sidecar.
Call(op, keep, error) ==
    [op |-> op, keep_mua_units |-> keep, error |-> error, dtype |-> "",
     recording_dtype |-> "", sortings |-> <<>>, wrote_xml |-> FALSE]

\* NeuroscopeSortingExtractor(resfile_path=NAME.res, clufile_path=NAME.clu,
\* keep_mua_units) on the folder
NewSorting ==
    /\ ~sorting.exists
    /\ last.op = "none"
    /\ 0 \in DOMAIN res_files /\ 0 \in DOMAIN clu_files
    /\ \E keep \in BOOLEAN :
       \E outcome \in OutcomesFor(res_files[0], clu_files[0]) :
          LET c == Construct(xml, res_files[0], clu_files[0], keep, outcome)
          IN  /\ sorting' = c.obj
              /\ last' = Call("init", keep, c.error)
    /\ UNCHANGED <<xml, res_files, clu_files, dat, reread, multi, ops>>

(* ------------- shift_unit_ids, add_unit, get_unit_spike_train --------- *)
\* spike trains handed to add_unit: none, one spike, an unsorted pair
AddTrains == {<<>>, <<20>>, <<40, 10>>}

\* [x + shift for x in self._unit_ids]
ShiftedIds(unit_ids, shift) == [i \in DOMAIN unit_ids |-> unit_ids[i] + shift]

\* shift_unit_ids(shift): AttributeError while _unit_ids is unset
ShiftUnitIds ==
    /\ sorting.exists
    /\ last.op \in {"init", "add_unit", "shift_unit_ids"}
    /\ ops < MaxOps
    /\ \E shift \in {-1, 1} :
          IF sorting.has_ids
          THEN /\ sorting' = [sorting EXCEPT !.unit_ids = ShiftedIds(@, shift)]
               /\ last' = Call("shift_unit_ids", sorting.keep_mua_units, "")
          ELSE /\ sorting' = sorting
               /\ last' = Call("shift_unit_ids", sorting.keep_mua_units, "AttributeError")
    /\ ops' = ops + 1
    /\ UNCHANGED <<xml, res_files, clu_files, dat, reread, multi>>

\* add_unit(unit_id, spike_times): both lists are appended to
AddUnit ==
    /\ sorting.exists
    /\ last.op \in {"init", "add_unit", "shift_unit_ids"}
    /\ ops < MaxOps
    /\ \E unit_id \in 1..MaxAddId, spike_times \in AddTrains :
          IF sorting.has_ids
          THEN /\ sorting' = [sorting EXCEPT !.unit_ids = Append(@, unit_id),
                                             !.spiketrains = Append(@, spike_times)]
               /\ last' = Call("add_unit", sorting.keep_mua_units, "")
          ELSE /\ sorting' = sorting
               /\ last' = Call("add_unit", sorting.keep_mua_units, "AttributeError")
    /\ ops' = ops + 1
    /\ UNCHANGED <<xml, res_files, clu_files, dat, reread, multi>>

\* self.get_unit_ids().index(unit_id): the first position holding unit_id
IndexOf(unit_ids, unit_id) ==
    CHOOSE i \in DOMAIN unit_ids :
        unit_ids[i] = unit_id /\ \A j \in 1..(i - 1) : unit_ids[j] # unit_id

\* get_unit_spike_train(unit_id) with start_frame=None, end_frame=None:
\* the times t with 0 <= t < inf of the train at that position
get_unit_spike_train(obj, unit_id) ==
    SelectSeq(obj.spiketrains[IndexOf(obj.unit_ids, unit_id)], LAMBDA t : 0 <= t)

(* ------------------------- write_sorting ------------------------------ *)
\* np.concatenate(spiketrains).ravel()
RECURSIVE np_concatenate(_)
np_concatenate(arrays) ==
    IF Len(arrays) = 0 THEN <<>> ELSE Head(arrays) \o np_concatenate(Tail(arrays))

\* label of the unit at 1-based position i: i+1 for the 0-based enumerate index
ClusterLabel(i) == i

\* [np.repeat(i+1, len(st)) for i, st in enumerate(spiketrains)]
LabelArrays(spiketrains) ==
    [i \in DOMAIN spiketrains |-> [k \in DOMAIN spiketrains[i] |-> ClusterLabel(i)]]

\* np.argsort(res): the index orders that sort res; which of them quicksort
\* returns when times tie is not specified.  Built by inserting index k into
\* every order of 1..k-1 at the places that keep the values sorted.
InsertAt(o, j, k) == SubSeq(o, 1, j - 1) \o <<k>> \o SubSeq(o, j, Len(o))
RECURSIVE np_argsort(_, _)
np_argsort(res, k) ==
    IF k = 0 THEN {<<>>}
    ELSE {InsertAt(o, j, k) :
            <<o, j>> \in {oj \in np_argsort(res, k - 1) \X (1..k) :
                      /\ \A i \in 1..(oj[2] - 1) : res[oj[1][i]] <= res[k]
                      /\ \A i \in oj[2]..(k - 1) : res[oj[1][i]] >= res[k]}}

\* (mutant) write_sorting without the argsort: arrays left in unit order
Reorder_Unsorted(a, order) == a

\* res[res_sort], clu[res_sort]
Reorder(a, order) == [i \in DOMAIN order |-> a[order[i]]]

\* Lines 291-306: the arrays saved for a sorting whose get_unit_ids() works,
\* for one outcome of the argsort.  clu carries its header.
SavedArrays(obj, order) ==
    LET unit_ids == obj.unit_ids
        spiketrains == [i \in DOMAIN unit_ids |-> get_unit_spike_train(obj, unit_ids[i])]
        res == Reorder(np_concatenate(spiketrains), order)
        clu == Reorder(np_concatenate(LabelArrays(spiketrains)), order)
    IN  [res |-> res, clu |-> <<Cardinality(np_unique(clu))>> \o clu]

\* the argsort outcomes for a sorting (a single empty order when it has no
\* units: res = [], clu = [])
SortOrders(obj) ==
    LET spiketrains == [i \in DOMAIN obj.unit_ids |->
                           get_unit_spike_train(obj, obj.unit_ids[i])]
        flat == np_concatenate(spiketrains)
    IN  np_argsort(flat, Len(flat))

\* (mutant) the sidecar written whether or not it exists
SidecarAfter_Overwrite(x, tags) == tags

\* "create parameters file if none exists": the sidecar after a save that
\* would write tags
SidecarAfter(x, tags) == IF x = NoXml THEN tags ELSE x

\* write_sorting(obj, folder), lines 283-322 (and, line for line, 408-447);
\* call is the record of the call, completed here with its outcome
write_sorting(obj, call) ==
    IF ~obj.has_ids
    THEN /\ last' = [call EXCEPT !.error = "AttributeError"]
         /\ UNCHANGED <<xml, res_files, clu_files>>
    ELSE \E order \in SortOrders(obj) :
           LET saved == SavedArrays(obj, order)
           IN  /\ res_files' = (0 :> saved.res) @@ res_files
               /\ clu_files' = (0 :> saved.clu) @@ clu_files
               /\ xml' = SidecarAfter(xml, <<<<"samplingrate", obj.sampling_frequency>>>>)
               /\ last' = [call EXCEPT !.wrote_xml = (xml = NoXml)]

\* the extractor built earlier is saved into the folder
WriteSorting ==
    /\ sorting.exists
    /\ last.op \in {"init", "add_unit", "shift_unit_ids"}
    /\ write_sorting(sorting, Call("write_sorting", sorting.keep_mua_units, ""))
    /\ UNCHANGED <<dat, sorting, reread, multi, ops>>

\* the saved pair is opened again
Reread ==
    /\ last.op = "write_sorting" /\ last.error = ""
    /\ sorting.exists
    /\ \E keep \in BOOLEAN :
       \E outcome \in OutcomesFor(res_files[0], clu_files[0]) :
          LET c == Construct(xml, res_files[0], clu_files[0], keep, outcome)
          IN  /\ reread' = c.obj
              /\ last' = Call("reread", keep, c.error)
    /\ UNCHANGED <<xml, res_files, clu_files, dat, sorting, multi, ops>>

\* The pairs the saved extractors are built from: the spec's scenario A, an
\* unsorted file, two units spiking at the same time, a file of noise only,
\* and an empty res file.
SortingInputs ==
    { << <<10, 20, 30, 40>>, <<3, 0, 1, 2, 1>> >>,
      << <<50, 30, 10>>, <<2, 1, 2, 1>> >>,
      << <<20, 20>>, <<2, 1, 2>> >>,
      << <<10>>, <<0, 0>> >>,
      << <<>>, <<0>> >> }

(* ------------------- saving into a target folder ---------------------- *)
\* the extractors that NeuroscopeSortingExtractor builds from the sample pairs
BuiltSortings ==
    UNION {{Construct(<<<<"samplingrate", 30000>>>>, p[1], p[2], keep, outcome).obj :
              keep \in BOOLEAN, outcome \in OutcomesFor(p[1], p[2])} : p \in SortingInputs}
    \ {NoSorting}

\* recordings handed to write_recording, by their get_dtype()
Recordings ==
    {[dtype |-> d, num_channels |-> 4, sampling_frequency |-> 20000] :
        d \in {"int16", "int32", "float32"}}

\* the dtype argument of write_recording
Dtypes == {"int16", "int32", "float32"}

\* lines 97-99: anything but int16 / int32 becomes int32 (with a warning)
Coerced(dtype) == IF dtype \in {"int16", "int32"} THEN dtype ELSE "int32"

\* str(dtype)[3:5] as a number
NBits(dtype) == IF dtype = "int16" THEN 16 ELSE 32

\* line 95: dtype = recording.get_dtype()
SidecarDtype(recording, dtype) == recording.dtype

\* the tags write_recording puts in a new sidecar, lines 94-111
RecordingTags(recording, dtype) ==
    << <<"nbits", NBits(dtype)>>,
       <<"nchannels", recording.num_channels>>,
       <<"samplingrate", recording.sampling_frequency>> >>

\* NeuroscopeRecordingExtractor.write_recording(recording, folder, dtype):
\* inside the branch that creates the sidecar dtype is reassigned, and the
\* dtype that reaches BinDatRecordingExtractor.write_recording is whatever
\* the name holds at line 118.
WriteRecording ==
    /\ \E recording \in Recordings, dtype \in Dtypes :
          LET used == IF xml = NoXml THEN Coerced(SidecarDtype(recording, dtype))
                      ELSE dtype
          IN  /\ xml' = SidecarAfter(xml, RecordingTags(recording, used))
              /\ dat' = used
              /\ last' = [Call("write_recording", TRUE, "") EXCEPT
                             !.dtype = dtype, !.recording_dtype = recording.dtype,
                             !.wrote_xml = (xml = NoXml)]
    /\ UNCHANGED <<res_files, clu_files, sorting, reread, multi, ops>>

\* NeuroscopeSortingExtractor.write_sorting of some extractor into the folder
SaveSorting ==
    /\ \E obj \in BuiltSortings :
          write_sorting(obj, Call("write_sorting", obj.keep_mua_units, ""))
    /\ UNCHANGED <<dat, sorting, reread, multi, ops>>

\* A MultiSortingExtractor over per-shank extractors, as write_sorting sees
\* it: unit ids 0..N-1 over all shanks' units in shank order, each with the
\* spike train of the shank unit it stands for; the sampling frequency of
\* the first shank.
MultiView(sortings) ==
    LET trains == np_concatenate(
                     [k \in DOMAIN sortings |->
                        [i \in DOMAIN sortings[k].unit_ids |->
                           get_unit_spike_train(sortings[k], sortings[k].unit_ids[i])]])
    IN  [exists |-> TRUE, has_ids |-> TRUE,
         unit_ids |-> [i \in DOMAIN trains |-> i - 1],
         spiketrains |-> trains,
         sampling_frequency |-> sortings[1].sampling_frequency,
         keep_mua_units |-> sortings[1].keep_mua_units]

\* the pairs the shanks of a multi-shank sorting were read from
ShankInputs ==
    { << <<10, 20, 30, 40>>, <<3, 0, 1, 2, 1>> >>,
      << <<50, 35, 15>>, <<2, 1, 2, 1>> >>,
      << <<60, 70>>, <<2, 2, 1>> >> }

\* the multi-shank sortings handed to the multi-shank write_sorting: up to
\* MaxShanks different shank extractors, each read with keep_mua_units
ShankSortings ==
    UNION {{Construct(<<<<"samplingrate", 30000>>>>, p[1], p[2], TRUE, outcome).obj :
              outcome \in OutcomesFor(p[1], p[2])} : p \in ShankInputs}
    \ {NoSorting}
MultiSortings ==
    UNION {{m \in [1..k -> ShankSortings] : \A i, j \in 1..k : m[i] = m[j] => i = j} :
             k \in 1..MaxShanks}

\* NeuroscopeMultiSortingExtractor.write_sorting(multi, folder), lines 408-447
MultiWriteSorting ==
    /\ \E sortings \in MultiSortings :
          write_sorting(MultiView(sortings),
                        [Call("multi_write_sorting", TRUE, "") EXCEPT
                            !.sortings = sortings])
    /\ UNCHANGED <<dat, sorting, reread, multi, ops>>

\* the outcome of line 195 under one numpy generation
OutcomeUnder(res, clufile, new_numpy) ==
    LET all == OutcomesFor(res, clufile)
    IN  IF new_numpy /\ "ValueError_new" \in all THEN "ValueError_new"
        ELSE CHOOSE o \in all : o # "ValueError_new"

Shanks(files) == {k \in DOMAIN files : k >= 1}
OrdersOf(S) == {o \in [1..Cardinality(S) -> S] : \A i, j \in DOMAIN o : o[i] = o[j] => i = j}

\* first error among the per-shank constructions, in order; "" if none
RECURSIVE FirstError(_)
FirstError(cs) ==
    IF Len(cs) = 0 THEN ""
    ELSE IF Head(cs).error # "" THEN Head(cs).error ELSE FirstError(Tail(cs))

\* NeuroscopeMultiSortingExtractor(folder, keep_mua_units), lines 358-401.
\* os.listdir returns the names in an arbitrary order; res_order / clu_order
\* are the orders in which it lists the .res.k and the .clu.k files.
OpenMulti ==
    /\ ~multi.exists
    /\ \E keep \in BOOLEAN, new_numpy \in BOOLEAN,
          res_order \in OrdersOf(Shanks(res_files)),
          clu_order \in OrdersOf(Shanks(clu_files)) :
          LET any_res == 0 \in DOMAIN res_files
              any_clu == 0 \in DOMAIN clu_files
              built == [i \in DOMAIN res_order |->
                          Construct(xml, res_files[res_order[i]], clu_files[res_order[i]],
                                    keep,
                                    OutcomeUnder(res_files[res_order[i]],
                                                 clu_files[res_order[i]], new_numpy))]
              error == IF xml = NoXml THEN "FileNotFoundError"
                       ELSE IF ~HasTag(xml, "samplingrate") THEN "AttributeError"
                       ELSE IF any_res \/ any_clu THEN "AssertionError: single pair"
                       ELSE IF res_order # clu_order THEN "AssertionError: unmatched"
                       ELSE FirstError(built)
          IN  /\ multi' = IF error = "" 
                          THEN [exists |-> TRUE, sortings |-> [i \in DOMAIN built |-> built[i].obj]]
                          ELSE NoMulti
              /\ last' = Call("multi_init", keep, error)
    /\ UNCHANGED <<xml, res_files, clu_files, dat, sorting, reread, ops>>

(* ----------------------- saving and reopening ------------------------- *)
\* NeuroscopeRecordingExtractor(folder), lines 39-68: reads NAME.xml, takes
\* soup.nbits, soup.nchannels and soup.samplingrate in that order (a missing
\* tag is None, whose .string raises AttributeError), then opens NAME.dat
\* with the dtype 'int' + nbits.
OpenRecording ==
    /\ LET error == IF xml = NoXml THEN "FileNotFoundError"
                    ELSE IF ~HasTag(xml, "nbits") THEN "AttributeError"
                    ELSE IF ~HasTag(xml, "nchannels") THEN "AttributeError"
                    ELSE IF ~HasTag(xml, "samplingrate") THEN "AttributeError"
                    ELSE IF dat = "none" THEN "FileNotFoundError"
                    ELSE ""
           dtype == IF xml # NoXml /\ HasTag(xml, "nbits")
                    THEN IF TagValue(xml, "nbits") = 16 THEN "int16" ELSE "int32"
                    ELSE ""
       IN  last' = [Call("recording_init", TRUE, error) EXCEPT !.dtype = dtype]
    /\ UNCHANGED <<xml, res_files, clu_files, dat, sorting, reread, multi, ops>>

(* ------------------------ opening a shank folder ---------------------- *)
\* Input folders of NeuroscopeMultiSortingExtractor: a sidecar with a sampling
\* rate, no unsplit pair, no temp file, and for every shank index a .res.k
\* and/or a .clu.k file, each taken from one of the ShankInputs pairs.
InitShanks ==
    /\ xml = <<<<"samplingrate", 30000>>>>
    /\ \E a \in [1..MaxShanks -> ShankInputs],
          R \in SUBSET (1..MaxShanks), C \in SUBSET (1..MaxShanks) :
          /\ res_files = [k \in R |-> a[k][1]]
          /\ clu_files = [k \in C |-> a[k][2]]
    /\ dat = "none"
    /\ sorting = NoSorting
    /\ reread = NoSorting
    /\ multi = NoMulti
    /\ last = Call("none", TRUE, "")
    /\ ops = 0

NextShanks == OpenMulti
SpecShanks == InitShanks /\ [][NextShanks]_vars

(* ------------------------- reading a pair ----------------------------- *)
\* Input folders: a sidecar with a sampling rate, and one .res/.clu pair
\* whose clu body is at most one line shorter or longer than the res file.
InputPairs ==
    {<<r, <<h>> \o c>> : r \in SeqsUpTo(Times, MaxSpikes),
                         h \in Headers,
                         c \in SeqsUpTo(ClusterIds, MaxSpikes + 1)}

InitRead ==
    /\ xml = <<<<"samplingrate", 30000>>>>
    /\ \E p \in InputPairs :
          /\ Len(p[2]) - 1 \in {Len(p[1]) - 1, Len(p[1]), Len(p[1]) + 1}
          /\ res_files = [k \in {0} |-> p[1]]
          /\ clu_files = [k \in {0} |-> p[2]]
    /\ dat = "none"
    /\ sorting = NoSorting
    /\ reread = NoSorting
    /\ multi = NoMulti
    /\ last = Call("none", TRUE, "")
    /\ ops = 0

NextRead == NewSorting

SpecRead == InitRead /\ [][NextRead]_vars

(* ------------------------ read, save, read ---------------------------- *)
\* Input folders with a non-empty res file and a clu body of the same length.
InitRoundTrip ==
    /\ InitRead
    /\ Len(res_files[0]) > 0
    /\ Len(clu_files[0]) = Len(res_files[0]) + 1

NextRoundTrip == NewSorting \/ WriteSorting \/ Reread

SpecRoundTrip == InitRoundTrip /\ [][NextRoundTrip]_vars

(* -------------------- an extractor and its save ----------------------- *)
\* An extractor just built from one of these pairs, and an empty target folder.
InitSorting ==
    /\ xml = NoXml
    /\ res_files = NoFiles
    /\ clu_files = NoFiles
    /\ dat = "none"
    /\ reread = NoSorting
    /\ multi = NoMulti
    /\ ops = 0
    /\ \E p \in SortingInputs, keep \in BOOLEAN :
       \E outcome \in OutcomesFor(p[1], p[2]) :
          LET c == Construct(<<<<"samplingrate", 30000>>>>, p[1], p[2], keep, outcome)
          IN  /\ c.error = ""
              /\ sorting = c.obj
              /\ last = Call("init", keep, "")

NextSorting == AddUnit \/ ShiftUnitIds \/ WriteSorting

SpecSorting == InitSorting /\ [][NextSorting]_vars

(* ----------------------- saves into one folder ------------------------ *)
\* An empty target folder; recordings and sortings are saved into it in any
\* order, and it is opened as a multi-shank sorting.
InitFolder ==
    /\ xml = NoXml
    /\ res_files = NoFiles
    /\ clu_files = NoFiles
    /\ dat = "none"
    /\ sorting = NoSorting
    /\ reread = NoSorting
    /\ multi = NoMulti
    /\ last = Call("none", TRUE, "")
    /\ ops = 0

NextFolder == WriteRecording \/ SaveSorting \/ MultiWriteSorting \/ OpenMulti

SpecFolder == InitFolder /\ [][NextFolder]_vars

\* An empty folder into which sortings and recordings are saved in any
\* order, and from which the recording is opened again.
NextSaves == WriteRecording \/ SaveSorting \/ OpenRecording
SpecSaves == InitFolder /\ [][NextSaves]_vars

(* ===================== claims about reading a pair ==================== *)
\* The files the constructor was given, and what the claims say about them.
InRes == res_files[0]
InBody == Tail(clu_files[0])
InHeader == clu_files[0][1]
InIds == {InBody[p] : p \in DOMAIN InBody}
Constructed == last.op = "init" /\ last.error = "" /\ sorting.exists

\* n_clu as the spec's step 2 adjusts it
ExpectedNClu ==
    IF InIds = 0..InHeader THEN InHeader
    ELSE InHeader + (IF 0 \in InIds THEN 0 ELSE 1) + (IF 1 \in InIds THEN 0 ELSE 1)

\* the k-th smallest element of a finite set of integers
KthOf(P, k) == CHOOSE p \in P : Cardinality({q \in P : q < p}) = k - 1

\* train is the subsequence of res at the positions where the body holds c
IsSubsequenceFor(train, c) ==
    LET P == {p \in DOMAIN InBody : InBody[p] = c}
    IN  /\ Len(train) = Cardinality(P)
        /\ \A k \in 1..Len(train) : train[k] = InRes[KthOf(P, k)]

SumLen(trains) ==
    LET RECURSIVE S(_)
        S(i) == IF i = 0 THEN 0 ELSE Len(trains[i]) + S(i - 1)
    IN  S(Len(trains))

ScenarioA ==
    /\ "true" \in OutcomesFor(<<10, 20, 30, 40>>, <<3, 0, 1, 2, 1>>)
    /\ LET r == ReadPair(<<10, 20, 30, 40>>, <<3, 0, 1, 2, 1>>, TRUE, "true")
       IN  r.error = "" /\ r.unit_ids = <<1, 2>>
           /\ r.spiketrains = << <<20, 40>>, <<30>> >>

\* C2: whenever the constructor completes on a non-empty res file, the unit
\* ids are 1..n_clu-1-d in order (d = 0 with keep_mua_units, 1 without, n_clu
\* the adjusted count), output unit j holds exactly the res values aligned
\* with cluster j+d, in file order, so spikes of cluster 0 (and of cluster 1
\* without keep_mua_units) are in no unit; and the spec's scenario
\* clu=[3,0,1,2,1], res=[10,20,30,40] reads as {1:[20,40], 2:[30]}.
C2_UnitSelection ==
    /\ ScenarioA
    /\ (Constructed /\ Len(InRes) > 0) =>
         LET d == IF last.keep_mua_units THEN 0 ELSE 1
             n == Max(ExpectedNClu - 1 - d, 0)
         IN  /\ sorting.has_ids
             /\ sorting.unit_ids = [j \in 1..n |-> j]
             /\ Len(sorting.spiketrains) = n
             /\ \A j \in 1..n : IsSubsequenceFor(sorting.spiketrains[j], j + d)
             /\ SumLen(sorting.spiketrains) =
                  Cardinality({p \in DOMAIN InBody : InBody[p] \in (1 + d)..(n + d)})

\* a read without keep_mua_units that drops a cluster-1 spike and renumbers
\* cluster 2 to unit 1
C2_Witness ==
    /\ Constructed /\ ~last.keep_mua_units
    /\ Len(InRes) = Len(InBody)
    /\ 1 \in InIds /\ 2 \in InIds
    /\ Len(sorting.unit_ids) >= 1
    /\ Len(sorting.spiketrains[1]) >= 1

\* C3 (as claimed): every read of a non-empty res file with a matching clu
\* file completes without error, with n_clu = h when the body's ids are
\* {0..h} and h plus one for each of the ids 0 and 1 absent otherwise (seen
\* in the number of units, n_clu-1-d).  Stated for the numpy versions that
\* compare arrays of different shapes as unequal, which the adjustment
\* relies on.
C3_Claim ==
    (last.op = "init" /\ Len(InRes) > 0 /\ Len(InRes) = Len(InBody)
       /\ last.error # "ValueError_new") =>
        LET d == IF last.keep_mua_units THEN 0 ELSE 1
        IN  /\ last.error = ""
            /\ sorting.has_ids
            /\ Len(sorting.unit_ids) = Max(ExpectedNClu - 1 - d, 0)

\* C5 (as claimed): reading a pair whose res file is empty succeeds and
\* get_unit_ids() returns the empty list.
C5_Claim ==
    (last.op = "init" /\ Len(InRes) = 0) =>
        /\ last.error = "" /\ sorting.exists
        /\ get_unit_ids(sorting) = [error |-> "", value |-> <<>>]

\* C6 (as claimed): a res file and a clu body of different lengths (here a
\* non-empty res file, so that the read block runs) make the constructor
\* fail; no sorting is built from them.
C6_Claim ==
    (last.op = "init" /\ Len(InRes) > 0 /\ Len(InRes) # Len(InBody)) =>
        (last.error # "" /\ ~sorting.exists)

(* ================= claims about the extractor and its save ============ *)
IsNondecreasing(a) == \A i \in 1..(Len(a) - 1) : a[i] <= a[i + 1]
Count(a, v) == Cardinality({i \in DOMAIN a : a[i] = v})
SameMultiset(a, b) ==
    /\ Len(a) = Len(b)
    /\ \A i \in DOMAIN a : Count(a, a[i]) = Count(b, a[i])
IsCountingFromOne(ids) == ids = [j \in 1..Len(ids) |-> j]
HasDistinctIds(ids) == \A i, j \in DOMAIN ids : ids[i] = ids[j] => i = j

JustSaved == last.op = "write_sorting" /\ last.error = ""
OutRes == res_files[0]
OutBody == Tail(clu_files[0])

\* the saved (time, label) pairs are those of the units by position
PairsMatchUnits ==
    /\ Len(OutBody) = Len(OutRes)
    /\ \A p \in DOMAIN OutBody : OutBody[p] \in DOMAIN sorting.spiketrains
    /\ \A i \in DOMAIN sorting.spiketrains :
         LET P == {p \in DOMAIN OutBody : OutBody[p] = i}
         IN  /\ Cardinality(P) = Len(sorting.spiketrains[i])
             /\ \A k \in DOMAIN sorting.spiketrains[i] :
                  Cardinality({p \in P : OutRes[p] = sorting.spiketrains[i][k]})
                    = Count(sorting.spiketrains[i], sorting.spiketrains[i][k])

ScenarioC ==
    LET obj == [NoSorting EXCEPT !.exists = TRUE, !.has_ids = TRUE,
                                 !.unit_ids = <<1, 2>>,
                                 !.spiketrains = << <<50, 10>>, <<30>> >>]
    IN  \A order \in SortOrders(obj) :
           SavedArrays(obj, order) = [res |-> <<10, 30, 50>>, clu |-> <<2, 1, 2, 1>>]

C1_Claim ==
    (last.op = "reread" /\ last.error = "" /\ reread.has_ids
       /\ sorting.keep_mua_units /\ last.keep_mua_units) =>
        /\ reread.unit_ids = sorting.unit_ids
        /\ \A j \in DOMAIN sorting.unit_ids :
              /\ IsNondecreasing(reread.spiketrains[j])
              /\ SameMultiset(reread.spiketrains[j], sorting.spiketrains[j])

(* =================== claims about saves into a folder ================= *)
\* C8: once NAME.xml exists, no write_recording, write_sorting or multi-shank
\* write_sorting call changes it: a call writes the sidecar only when it is
\* absent.
C8_SidecarKept == [][xml # NoXml => xml' = xml]_vars

\* a recording was saved into a folder whose sidecar a sorting save had
\* written; the sidecar is still the sorting's
C8_Witness ==
    /\ last.op = "write_recording" /\ ~last.wrote_xml
    /\ xml = <<<<"samplingrate", 30000>>>>
    /\ dat # "none"

\* C9 (as claimed): the multi-shank write_sorting of k shanks leaves k pairs
\* NAME.res.N / NAME.clu.N, the N-th holding what write_sorting saves for
\* shank N alone, and writes no unsplit NAME.res / NAME.clu pair (seen in a
\* folder that was empty before the call).
C9_Claim ==
    (last.op = "multi_write_sorting" /\ last.error = "") =>
        /\ \A N \in 1..Len(last.sortings) :
              /\ N \in DOMAIN res_files /\ N \in DOMAIN clu_files
              /\ \E order \in SortOrders(last.sortings[N]) :
                    SavedArrays(last.sortings[N], order)
                      = [res |-> res_files[N], clu |-> clu_files[N]]
        /\ last.wrote_xml => (0 \notin DOMAIN res_files /\ 0 \notin DOMAIN clu_files)

\* C10 (as claimed): the dtype handed to the binary writer is the dtype
\* argument, coerced to int32 unless it is int16 or int32, and when the call
\* creates the sidecar its nbits is the width of that dtype.
C10_Claim ==
    (last.op = "write_recording") =>
        /\ dat = Coerced(last.dtype)
        /\ last.wrote_xml =>
              (HasTag(xml, "nbits") /\ TagValue(xml, "nbits") = NBits(Coerced(last.dtype)))

(* ===================== claims about shank discovery =================== *)
\* C11 (as claimed): in a folder with a readable sidecar and no unsplit
\* .res/.clu file, constructing NeuroscopeMultiSortingExtractor raises the
\* 'Unmatched .clu.%i and .res.%i files' assertion when the set of shank
\* indices of the .res.k files differs from that of the .clu.k files, and
\* does not raise it when the two sets are equal, in whatever order the
\* directory listing returns the names.
C11_Claim ==
    (/\ last.op = "multi_init"
     /\ HasTag(xml, "samplingrate")
     /\ 0 \notin DOMAIN res_files /\ 0 \notin DOMAIN clu_files) =>
        /\ Shanks(res_files) # Shanks(clu_files)
              => last.error = "AssertionError: unmatched"
        /\ Shanks(res_files) = Shanks(clu_files)
              => last.error # "AssertionError: unmatched"

(* ================== claims about reopening a recording ================ *)
\* C12 (as claimed): in a folder that had no sidecar, after any sequence of
\* write_sorting and write_recording calls with at least one write_recording
\* (NAME.dat exists), NAME.xml holds the tags nbits, nchannels and
\* samplingrate, and NeuroscopeRecordingExtractor(folder) opens the
\* recording without error.
C12_Claim ==
    (dat # "none") =>
        /\ xml # NoXml
        /\ HasTag(xml, "nbits") /\ HasTag(xml, "nchannels") /\ HasTag(xml, "samplingrate")
        /\ last.op = "recording_init" => last.error = ""

====
